---- MODULE Spec2Model ----
(***************************************************************************)
(* Model of the PIDA document analyzer backend (src/main.py and            *)
(* src/core/security.py): the allow-list gate of get_current_user, the     *)
(* plan resolver get_user_plan_unified, the quota gate                     *)
(* check_analysis_access_and_limits / increment_analysis_count and the     *)
(* streamed /analyze/ request (generate_stream wrapped by counted_stream). *)
(*                                                                         *)
(* Strings that the code converts (strip, lower, split) are sequences of   *)
(* one-character strings, so the conversions are computed.  Strings that   *)
(* the code only compares for equality (status values, error kinds) are    *)
(* TLA+ strings.  One subject (user id) is modelled; the store documents   *)
(* are those of that subject.                                              *)
(***************************************************************************)
EXTENDS Integers, Sequences, FiniteSets, Bags, TLC

\* ------------------------------------------------------------------ bounds
MaxEmailLen == 4
MaxFiles == 2
MaxInFlight == 2
MaxChunks == 1
MaxStreamChunks == 2
MaxClock == 12
TickHours == 12
MaxStored == 26

\* ------------------------------------------------------- program constants
LIMIT_BASICO_ANALYSIS_DAILY == 3
LIMIT_AVANZADO_ANALYSIS_DAILY == 15
LIMIT_PREMIUM_ANALYSIS_DAILY == 25
LIMIT_BASICO_DOCS == 1
LIMIT_AVANZADO_DOCS == 3
LIMIT_PREMIUM_DOCS == 5
VIP_DOCS == 100
UNLIMITED == -1
UTC_OFFSET_HOURS == 6

\* ----------------------------------------------------------------- strings
Chars == {"a", "A", "@", " "}

S_none == <<"n", "o", "n", "e">>
S_basico == <<"b", "a", "s", "i", "c", "o">>
S_avanzado == <<"a", "v", "a", "n", "z", "a", "d", "o">>
S_premium == <<"p", "r", "e", "m", "i", "u", "m">>
S_vip == <<"v", "i", "p">>

\* str.lower() on one character
LowerChar(c) ==
  CASE c = "A" -> "a"
    [] c = "B" -> "b"
    [] c = "G" -> "g"
    [] c = "N" -> "n"
    [] c = "P" -> "p"
    [] c = "V" -> "v"
    [] OTHER -> c

\* str.lower()
Lower(s) == [i \in 1..Len(s) |-> LowerChar(s[i])]

RECURSIVE LStrip(_)
LStrip(s) == IF s # <<>> /\ Head(s) = " " THEN LStrip(Tail(s)) ELSE s

RECURSIVE RStrip(_)
RStrip(s) ==
  IF s # <<>> /\ s[Len(s)] = " " THEN RStrip(SubSeq(s, 1, Len(s) - 1)) ELSE s

\* str.strip()
Strip(s) == RStrip(LStrip(s))

\* "@" in s
HasAt(s) == \E i \in 1..Len(s) : s[i] = "@"

\* s.split("@"): the fields between the separators, in order
RECURSIVE Split(_)
Split(s) ==
  IF ~HasAt(s) THEN <<s>>
  ELSE LET i == CHOOSE k \in 1..Len(s) :
                  s[k] = "@" /\ \A j \in 1..(k - 1) : s[j] # "@"
       IN <<SubSeq(s, 1, i - 1)>> \o Split(SubSeq(s, i + 1, Len(s)))

\* x in list
InList(x, list) == \E i \in 1..Len(list) : list[i] = x

\* [str(d).strip().lower() for d in json.loads(raw)]
NormList(list) == [i \in 1..Len(list) |-> Lower(Strip(list[i]))]

\* json.loads(raw) of an environment value: ok = FALSE when it does not
\* parse to a list
Json(list) == [ok |-> TRUE, val |-> list]
Malformed == [ok |-> FALSE, val |-> <<>>]

\* --------------------------------------------------------------- variables
VARIABLES
  ADMIN_DOMAINS,      \* os.getenv("ADMIN_DOMAINS"), parsed or malformed
  ADMIN_EMAILS,       \* os.getenv("ADMIN_EMAILS"), parsed or malformed
  token_email,        \* decoded_token["email"] of the subject
  customers,          \* customers/{user_id} document
  utc_now,            \* datetime.now(timezone.utc), in hours
  usage_stats,        \* users/{user_id}/usage_stats/{bucket} documents
  analysis_history,   \* analysis_history collection
  inflight,           \* the /analyze/ requests being served (a bag)
  last,               \* the request that ended last, as it ended
  n_limit,            \* how many requests the client keeps in flight
  commit_calls,       \* calls of increment_analysis_count, per bucket
  call,               \* arguments of a direct call of one function
  ret                 \* what that call returned

vars == <<ADMIN_DOMAINS, ADMIN_EMAILS, token_email, customers, utc_now,
          usage_stats, analysis_history, inflight, last, n_limit,
          commit_calls,
          call, ret>>

envVars == <<ADMIN_DOMAINS, ADMIN_EMAILS, token_email, customers>>

\* ------------------------------------------------------------ limit tables
\* the table without its vip entry
ANALYSIS_LIMITS_NoVip(plan_key) ==
  CASE plan_key = S_basico -> LIMIT_BASICO_ANALYSIS_DAILY
    [] plan_key = S_avanzado -> LIMIT_AVANZADO_ANALYSIS_DAILY
    [] plan_key = S_premium -> LIMIT_PREMIUM_ANALYSIS_DAILY
    [] OTHER -> 0

ANALYSIS_LIMITS(plan_key) ==
  CASE plan_key = S_basico -> LIMIT_BASICO_ANALYSIS_DAILY
    [] plan_key = S_avanzado -> LIMIT_AVANZADO_ANALYSIS_DAILY
    [] plan_key = S_premium -> LIMIT_PREMIUM_ANALYSIS_DAILY
    [] plan_key = S_vip -> UNLIMITED
    [] OTHER -> 0

\* the table read with "unlimited" as the default of a missing key
DOCS_LIMITS_DefaultUnlimited(plan_key) ==
  CASE plan_key = S_basico -> LIMIT_BASICO_DOCS
    [] plan_key = S_avanzado -> LIMIT_AVANZADO_DOCS
    [] plan_key = S_premium -> LIMIT_PREMIUM_DOCS
    [] plan_key = S_vip -> VIP_DOCS
    [] OTHER -> UNLIMITED

DOCS_LIMITS(plan_key) ==
  CASE plan_key = S_basico -> LIMIT_BASICO_DOCS
    [] plan_key = S_avanzado -> LIMIT_AVANZADO_DOCS
    [] plan_key = S_premium -> LIMIT_PREMIUM_DOCS
    [] plan_key = S_vip -> VIP_DOCS
    [] OTHER -> 0

\* ------------------------------------------------------------- date bucket
get_date_utc_minus_6(now) == (now - UTC_OFFSET_HOURS) \div 24

Buckets == get_date_utc_minus_6(0)..get_date_utc_minus_6(MaxClock)

AbsentDoc == [exists |-> FALSE, analysis_count |-> 0]

\* ------------------------------------------------------------ plan resolver
PlanIs(p) == [plan |-> p, raised |-> FALSE, store_read |-> FALSE]

\* the store read outside try/except, and any status accepted
SubscriptionPlanUnguarded(cust, store_ok) ==
  IF ~store_ok THEN [plan |-> S_none, raised |-> TRUE, store_read |-> TRUE]
  ELSE IF cust.exists
  THEN [plan |-> S_basico, raised |-> FALSE, store_read |-> TRUE]
  ELSE [plan |-> S_none, raised |-> FALSE, store_read |-> TRUE]

\* lines 132-145: the customers document is read inside try/except
SubscriptionPlan(cust, store_ok) ==
  IF ~store_ok THEN [plan |-> S_none, raised |-> FALSE, store_read |-> TRUE]
  ELSE IF cust.exists /\ cust.status \in {"active", "trialing"}
  THEN CASE cust.plan.kind = "missing" ->
              [plan |-> S_basico, raised |-> FALSE, store_read |-> TRUE]
         [] cust.plan.kind = "null" ->
              [plan |-> S_basico, raised |-> FALSE, store_read |-> TRUE]
         [] cust.plan.kind = "str" ->
              [plan |-> IF cust.plan.val # <<>> THEN Lower(cust.plan.val)
                        ELSE S_basico,
               raised |-> FALSE, store_read |-> TRUE]
         [] OTHER ->
              \* a truthy value without lower(): AttributeError, caught
              [plan |-> S_none, raised |-> FALSE, store_read |-> TRUE]
  ELSE [plan |-> S_none, raised |-> FALSE, store_read |-> TRUE]

\* the domain taken as the second field instead of the last one
EmailDomainSecond(email) ==
  IF HasAt(email) THEN Split(email)[2] ELSE <<>>

EmailDomainLast(email) ==
  IF HasAt(email) THEN Split(email)[Len(Split(email))] ELSE <<>>

\* each list parsed in its own try: one list survives the other's failure
plan_parse_each(user_email, raw_domains, raw_emails, cust, store_ok) ==
  LET email == Lower(Strip(user_email))
      admin_domains == IF raw_domains.ok THEN NormList(raw_domains.val)
                       ELSE <<>>
      admin_emails == IF raw_emails.ok THEN NormList(raw_emails.val)
                      ELSE <<>>
      email_domain == EmailDomainLast(email)
  IN IF InList(email_domain, admin_domains) \/ InList(email, admin_emails)
     THEN PlanIs(S_vip)
     ELSE SubscriptionPlan(cust, store_ok)

get_user_plan_unified(user_email, raw_domains, raw_emails, cust, store_ok) ==
  LET email == Lower(Strip(user_email))
      parsed == raw_domains.ok /\ raw_emails.ok
      admin_domains == IF parsed THEN NormList(raw_domains.val) ELSE <<>>
      admin_emails == IF parsed THEN NormList(raw_emails.val) ELSE <<>>
      email_domain == EmailDomainLast(email)
  IN IF InList(email_domain, admin_domains) \/ InList(email, admin_emails)
     THEN PlanIs(S_vip)
     ELSE SubscriptionPlan(cust, store_ok)

\* ------------------------------------------------------------ authentication
get_current_user(valid_token, token_mail, raw_domains, raw_emails) ==
  IF ~valid_token THEN [status |-> 401]
  ELSE
    LET email == Lower(Strip(token_mail))
        domain == IF HasAt(email) THEN Split(email)[2] ELSE <<>>
        parsed == raw_domains.ok /\ raw_emails.ok
        allowed_domains == IF parsed THEN NormList(raw_domains.val) ELSE <<>>
        allowed_emails == IF parsed THEN NormList(raw_emails.val) ELSE <<>>
        has_restrictions == allowed_domains # <<>> \/ allowed_emails # <<>>
    IN IF has_restrictions
          /\ ~(InList(domain, allowed_domains) \/ InList(email, allowed_emails))
       THEN [status |-> 403]
       ELSE [status |-> 200]

\* --------------------------------------------------------------- quota gate
Verdict(st, d, rd) == [status |-> st, detail |-> d, read_stats |-> rd]

\* ">" written for ">="
DailyReachedStrict(current_count, limit_daily) == current_count > limit_daily

DailyReached(current_count, limit_daily) == current_count >= limit_daily

\* the gate without its first test
check_without_none_test(plan_key, num_files, check_daily, stats, now) ==
  IF num_files > 0 /\ DOCS_LIMITS(plan_key) # UNLIMITED
     /\ num_files > DOCS_LIMITS(plan_key)
  THEN Verdict(403, "docs", FALSE)
  ELSE IF ~check_daily THEN Verdict(200, "ok", FALSE)
  ELSE IF ANALYSIS_LIMITS(plan_key) = UNLIMITED THEN Verdict(200, "ok", FALSE)
  ELSE LET doc == stats[get_date_utc_minus_6(now)]
           current_count == IF doc.exists THEN doc.analysis_count ELSE 0
       IN IF DailyReached(current_count, ANALYSIS_LIMITS(plan_key))
          THEN Verdict(429, "daily", TRUE)
          ELSE Verdict(200, "ok", TRUE)

\* the gate with the daily test ahead of the document-count test
check_daily_first(plan_key, num_files, check_daily, stats, now) ==
  LET doc == stats[get_date_utc_minus_6(now)]
      current_count == IF doc.exists THEN doc.analysis_count ELSE 0
  IN IF plan_key = S_none THEN Verdict(403, "no_plan", FALSE)
     ELSE IF check_daily /\ ANALYSIS_LIMITS(plan_key) # UNLIMITED
             /\ DailyReached(current_count, ANALYSIS_LIMITS(plan_key))
     THEN Verdict(429, "daily", TRUE)
     ELSE IF num_files > 0 /\ DOCS_LIMITS(plan_key) # UNLIMITED
             /\ num_files > DOCS_LIMITS(plan_key)
     THEN Verdict(403, "docs", FALSE)
     ELSE Verdict(200, "ok", check_daily /\ ANALYSIS_LIMITS(plan_key) # UNLIMITED)

check_analysis_access_and_limits(plan_key, num_files, check_daily, stats, now) ==
  IF plan_key = S_none THEN Verdict(403, "no_plan", FALSE)
  ELSE IF num_files > 0 /\ DOCS_LIMITS(plan_key) # UNLIMITED
          /\ num_files > DOCS_LIMITS(plan_key)
  THEN Verdict(403, "docs", FALSE)
  ELSE IF ~check_daily THEN Verdict(200, "ok", FALSE)
  ELSE IF ANALYSIS_LIMITS(plan_key) = UNLIMITED THEN Verdict(200, "ok", FALSE)
  ELSE LET doc == stats[get_date_utc_minus_6(now)]
           current_count == IF doc.exists THEN doc.analysis_count ELSE 0
       IN IF DailyReached(current_count, ANALYSIS_LIMITS(plan_key))
          THEN Verdict(429, "daily", TRUE)
          ELSE Verdict(200, "ok", TRUE)

\* the field written as the value 1 instead of Increment(1)
increment_overwrites(stats, now) ==
  LET today == get_date_utc_minus_6(now)
  IN [stats EXCEPT ![today] = [exists |-> TRUE, analysis_count |-> 1]]

\* stats_ref.set({'analysis_count': Increment(1), ...}, merge=True)
increment_analysis_count(stats, now) ==
  LET today == get_date_utc_minus_6(now)
  IN [stats EXCEPT ![today] =
        [exists |-> TRUE,
         analysis_count |-> (IF @.exists THEN @.analysis_count ELSE 0) + 1]]

\* ------------------------------------------------------ /analyze/ requests
InFlightPcs == {"generating", "streaming", "saving", "done_sent", "error_sent"}
TerminalPcs == {"rejected", "finished", "cancelled"}

\* the locals of one request: analyze_documents, generate_stream and
\* counted_stream, and what the client has received of it (events)
IdleReq ==
  [pc |-> "idle", plan |-> <<>>, status |-> 0, detail |-> "",
   full_text |-> <<>>, events |-> <<>>, analysis_id |-> "",
   cancelled_at |-> ""]

\* one server-sent event: data: {...}
TextEvent(t) == [type |-> "text", text |-> t, analysis_id |-> ""]
DoneEvent(id) == [type |-> "done", text |-> <<>>, analysis_id |-> id]
ErrorEvent == [type |-> "error", text |-> <<>>, analysis_id |-> ""]

\* chunk.text of one streamed chunk of the model's answer
ChunkTexts == {<<>>, <<"x">>}
StreamTexts == {<<>>, <<"x">>, <<"y">>}

\* the document ids doc_ref = collection.document() may draw
HistoryIds == {"h1"}
UsedIds == {d.id : d \in analysis_history}

Requests == BagToSet(inflight)
Step(r, r2) == (inflight (-) SetToBag({r})) (+) SetToBag({r2})
Leave(r) == inflight (-) SetToBag({r})

\* which terminal event a stream carries
Marker(events) ==
  IF \E i \in 1..Len(events) : events[i].type = "done" THEN "done"
  ELSE IF \E i \in 1..Len(events) : events[i].type = "error" THEN "error"
  ELSE "none"

\* a request that is over: how it ended, as the client saw it
NoneEnded ==
  [pc |-> "idle", plan |-> <<>>, status |-> 0, detail |-> "",
   marker |-> "none", saved |-> FALSE, cancelled_at |-> ""]

Ended(r, how) ==
  [pc |-> how, plan |-> r.plan, status |-> r.status, detail |-> r.detail,
   marker |-> Marker(r.events), saved |-> r.analysis_id # "",
   cancelled_at |-> r.cancelled_at]

Rejected(st, d, plan_key) ==
  [NoneEnded EXCEPT !.pc = "rejected", !.status = st, !.detail = d,
                    !.plan = plan_key]

\* analyze_documents, lines 356-451, up to the StreamingResponse
Analyze ==
  /\ BagCardinality(inflight) < n_limit
  /\ \E valid_token \in BOOLEAN :
       LET auth == get_current_user(valid_token, token_email,
                                    ADMIN_DOMAINS, ADMIN_EMAILS)
       IN IF auth.status # 200
          THEN /\ last' = Rejected(auth.status, "auth", <<>>)
               /\ UNCHANGED inflight
          ELSE \E store_ok \in BOOLEAN :
            LET res == get_user_plan_unified(token_email, ADMIN_DOMAINS,
                                             ADMIN_EMAILS, customers,
                                             store_ok)
            IN \E num_files \in 1..MaxFiles :
              LET chk == check_analysis_access_and_limits(
                             res.plan, num_files, TRUE, usage_stats, utc_now)
              IN IF chk.status # 200
                 THEN /\ last' = Rejected(chk.status, chk.detail, res.plan)
                      /\ UNCHANGED inflight
                 ELSE \E files_ok \in BOOLEAN :
                   IF ~files_ok
                   THEN /\ last' = Rejected(400, "file", res.plan)
                        /\ UNCHANGED inflight
                   ELSE /\ inflight' = inflight (+) SetToBag(
                             {[IdleReq EXCEPT !.pc = "generating",
                                              !.status = 200,
                                              !.plan = res.plan]})
                        /\ UNCHANGED last
  /\ UNCHANGED <<envVars, utc_now, usage_stats, analysis_history, n_limit,
                 commit_calls, call, ret>>

\* line 418: model.generate_content_async returned the response stream
GenerateOk(r) ==
  /\ r.pc = "generating"
  /\ inflight' = Step(r, [r EXCEPT !.pc = "streaming"])
  /\ UNCHANGED <<envVars, utc_now, usage_stats, analysis_history, last,
                 n_limit, commit_calls, call, ret>>

\* lines 440-442: an exception inside the try block yields the error event
RaiseInStream(r) ==
  /\ r.pc \in {"generating", "streaming", "saving"}
  /\ inflight' = Step(r, [r EXCEPT !.pc = "error_sent",
                                   !.events = Append(@, ErrorEvent)])
  /\ UNCHANGED <<envVars, utc_now, usage_stats, analysis_history, last,
                 n_limit, commit_calls, call, ret>>

\* lines 421-424: one chunk of the answer, its text one of texts, at most
\* cap chunks with text per stream; a chunk without text is skipped
StreamChunkFrom(r, texts, cap) ==
  /\ r.pc = "streaming"
  /\ \E text \in texts :
       /\ text # <<>> => Len(r.events) < cap
       /\ inflight' = Step(r,
            [r EXCEPT !.full_text = IF text # <<>> THEN @ \o text ELSE @,
                      !.events = IF text # <<>> THEN Append(@, TextEvent(text))
                                 ELSE @])
  /\ UNCHANGED <<envVars, utc_now, usage_stats, analysis_history, last,
                 n_limit, commit_calls, call, ret>>

StreamChunk(r) == StreamChunkFrom(r, ChunkTexts, MaxChunks)

\* the same with two different texts and longer streams
StreamChunkLong(r) == StreamChunkFrom(r, StreamTexts, MaxStreamChunks)

\* line 421: the response stream is exhausted
StreamEnd(r) ==
  /\ r.pc = "streaming"
  /\ inflight' = Step(r, [r EXCEPT !.pc = "saving"])
  /\ UNCHANGED <<envVars, utc_now, usage_stats, analysis_history, last,
                 n_limit, commit_calls, call, ret>>

HistoryDoc(id, text) == [id |-> id, userId |-> "uid", analysis |-> text]

\* the record keeps the text of the last chunk instead of full_text
SaveHistoryLastChunk(r) ==
  /\ r.pc = "saving"
  /\ \E id \in HistoryIds \ UsedIds :
       /\ analysis_history' =
            analysis_history \cup
              {HistoryDoc(id, IF r.events = <<>> THEN <<>>
                              ELSE r.events[Len(r.events)].text)}
       /\ inflight' = Step(r, [r EXCEPT !.pc = "done_sent",
                                        !.analysis_id = id,
                                        !.events = Append(@, DoneEvent(id))])
  /\ UNCHANGED <<envVars, utc_now, usage_stats, last, n_limit, commit_calls,
                 call, ret>>

\* lines 427-438: the history record is written, then the done event is sent
SaveHistory(r) ==
  /\ r.pc = "saving"
  /\ \E id \in HistoryIds \ UsedIds :
       /\ analysis_history' =
            analysis_history \cup {HistoryDoc(id, r.full_text)}
       /\ inflight' = Step(r, [r EXCEPT !.pc = "done_sent",
                                        !.analysis_id = id,
                                        !.events = Append(@, DoneEvent(id))])
  /\ UNCHANGED <<envVars, utc_now, usage_stats, last, n_limit, commit_calls,
                 call, ret>>

\* lines 445-449: generate_stream is exhausted, counted_stream increments
CountedStreamEnd(r) ==
  /\ r.pc \in {"done_sent", "error_sent"}
  /\ usage_stats' = increment_analysis_count(usage_stats, utc_now)
  /\ commit_calls' =
       [commit_calls EXCEPT ![get_date_utc_minus_6(utc_now)] = @ + 1]
  /\ inflight' = Leave(r)
  /\ last' = Ended(r, "finished")
  /\ UNCHANGED <<envVars, utc_now, analysis_history, n_limit, call, ret>>

\* the increment placed in a finally block of counted_stream
DisconnectCounts(r) ==
  /\ r.pc \in {"generating", "streaming", "done_sent", "error_sent"}
  /\ inflight' = Leave(r)
  /\ last' = [Ended(r, "cancelled") EXCEPT !.cancelled_at = r.pc]
  /\ usage_stats' = increment_analysis_count(usage_stats, utc_now)
  /\ commit_calls' =
       [commit_calls EXCEPT ![get_date_utc_minus_6(utc_now)] = @ + 1]
  /\ UNCHANGED <<envVars, utc_now, analysis_history, n_limit, call, ret>>

\* The client closes the connection while the generators are suspended at
\* an await or a yield: the response task is cancelled, CancelledError or
\* GeneratorExit (BaseException, not caught by "except Exception") unwinds
\* generate_stream and counted_stream.
Disconnect(r) ==
  /\ r.pc \in {"generating", "streaming", "done_sent", "error_sent"}
  /\ inflight' = Leave(r)
  /\ last' = [Ended(r, "cancelled") EXCEPT !.cancelled_at = r.pc]
  /\ UNCHANGED <<envVars, utc_now, usage_stats, analysis_history, n_limit,
                 commit_calls, call, ret>>

\* The same while doc_ref.set of line 430 is awaited: the write may or may
\* not have reached the store.
DisconnectWhileSaving(r) ==
  /\ r.pc = "saving"
  /\ inflight' = Leave(r)
  /\ \/ /\ last' = [Ended(r, "cancelled") EXCEPT !.cancelled_at = "saving"]
        /\ UNCHANGED analysis_history
     \/ \E id \in HistoryIds \ UsedIds :
          /\ analysis_history' =
               analysis_history \cup {HistoryDoc(id, r.full_text)}
          /\ last' = [Ended(r, "cancelled") EXCEPT !.cancelled_at = "saving",
                                                   !.saved = TRUE]
  /\ UNCHANGED <<envVars, utc_now, usage_stats, n_limit, commit_calls,
                 call, ret>>

\* the deletion of a record gives the analysis back to today's counter
delete_analysis_refunds(id) ==
  /\ \E d \in analysis_history : d.id = id /\ d.userId = "uid"
  /\ analysis_history' = {d \in analysis_history : d.id # id}
  /\ usage_stats' =
       [usage_stats EXCEPT ![get_date_utc_minus_6(utc_now)] =
          IF @.exists /\ @.analysis_count > 0
          THEN [@ EXCEPT !.analysis_count = @ - 1] ELSE @]
  /\ UNCHANGED <<envVars, utc_now, inflight, last, n_limit, commit_calls,
                 call, ret>>

\* delete_analysis, lines 506-516, by the owner of the record
delete_analysis(id) ==
  /\ \E d \in analysis_history : d.id = id /\ d.userId = "uid"
  /\ analysis_history' = {d \in analysis_history : d.id # id}
  /\ UNCHANGED <<envVars, utc_now, usage_stats, inflight, last, n_limit,
                 commit_calls, call, ret>>

\* The endpoints that only read.  Each answers from the plan and from the
\* history collection; none writes to a collection.
\* the status of a request that got past Depends(get_current_user) and the
\* plan test "if plan == 'none': raise HTTPException(403, ...)"
ReadStatus(valid_token, store_ok, then) ==
  LET auth == get_current_user(valid_token, token_email, ADMIN_DOMAINS,
                               ADMIN_EMAILS)
      res == get_user_plan_unified(token_email, ADMIN_DOMAINS, ADMIN_EMAILS,
                                   customers, store_ok)
  IN IF auth.status # 200 THEN auth.status
     ELSE IF res.plan = S_none THEN 403
     ELSE then

\* download_analysis, lines 453-473: renders the text it is given
download_analysis ==
  /\ \E valid_token \in BOOLEAN, store_ok \in BOOLEAN, rendered \in BOOLEAN :
       ReadStatus(valid_token, store_ok, IF rendered THEN 200 ELSE 500)
         \in {200, 401, 403, 500}
  /\ UNCHANGED vars

\* get_analysis_history, lines 475-490: lists the subject's records
get_analysis_history ==
  /\ \E valid_token \in BOOLEAN, store_ok \in BOOLEAN :
       LET history == {d.id : d \in {h \in analysis_history :
                                       h.userId = "uid"}}
       IN /\ ReadStatus(valid_token, store_ok, 200) \in {200, 401, 403}
          /\ history \subseteq HistoryIds
  /\ UNCHANGED vars

\* get_analysis_detail, lines 492-504: one record of the subject
get_analysis_detail(id) ==
  /\ \E valid_token \in BOOLEAN, store_ok \in BOOLEAN :
       LET found == \E d \in analysis_history : d.id = id
           own == \E d \in analysis_history : d.id = id /\ d.userId = "uid"
       IN ReadStatus(valid_token, store_ok,
                     IF ~found THEN 404 ELSE IF ~own THEN 403 ELSE 200)
            \in {200, 401, 403, 404}
  /\ UNCHANGED vars

\* time passes
Tick ==
  /\ utc_now + TickHours <= MaxClock
  /\ utc_now' = utc_now + TickHours
  /\ UNCHANGED <<envVars, usage_stats, analysis_history, inflight, last,
                 n_limit, commit_calls, call, ret>>

\* ------------------------------------------------ deployments of the flow
Str_a_at_a == <<"a", "@", "a">>
NoCall == [fn |-> "none"]
NoPlanField == [kind |-> "missing", val |-> <<>>]
StrField(v) == [kind |-> "str", val |-> v]
IntField == [kind |-> "int", val |-> <<>>]
NoCustomer == [exists |-> FALSE, status |-> "missing", plan |-> NoPlanField]
Customer(st, p) == [exists |-> TRUE, status |-> st, plan |-> p]

\* The deployments the request flow is explored under.  The subscription of
\* the subject does not change during a run.  Allow-listed (vip) identities
\* are explored through the direct calls of the resolver and of the gate
\* below, where every counter value is drawn.
FlowProfiles ==
  { \* subscriber on basico, no allow-list configured
    [mail |-> Str_a_at_a, domains |-> Json(<<>>), emails |-> Json(<<>>),
     cust |-> Customer("active", StrField(<<"B", "a", "s", "i", "c", "o">>))],
    \* no subscription record
    [mail |-> Str_a_at_a, domains |-> Json(<<>>), emails |-> Json(<<>>),
     cust |-> NoCustomer],
    \* subscription on a plan name the limit tables do not know
    [mail |-> Str_a_at_a, domains |-> Json(<<>>), emails |-> Json(<<>>),
     cust |-> Customer("trialing", StrField(<<"g", "o", "l", "d">>))],
    \* allow-list configured, subject not on it
    [mail |-> Str_a_at_a, domains |-> Json(<< <<"a", "a">> >>),
     emails |-> Json(<<>>),
     cust |-> Customer("active", StrField(S_basico))] }

Init ==
  /\ \E p \in FlowProfiles :
       /\ token_email = p.mail
       /\ ADMIN_DOMAINS = p.domains
       /\ ADMIN_EMAILS = p.emails
       /\ customers = p.cust
  /\ utc_now = 0
  /\ usage_stats = [b \in Buckets |-> AbsentDoc]
  /\ analysis_history = {}
  /\ inflight = EmptyBag
  /\ last = NoneEnded
  /\ n_limit \in 1..MaxInFlight
  /\ commit_calls = [b \in Buckets |-> 0]
  /\ call = NoCall
  /\ ret = NoCall

Next ==
  \/ Analyze
  \/ \E r \in Requests : GenerateOk(r)
  \/ \E r \in Requests : RaiseInStream(r)
  \/ \E r \in Requests : StreamChunk(r)
  \/ \E r \in Requests : StreamEnd(r)
  \/ \E r \in Requests : SaveHistory(r)
  \/ \E r \in Requests : CountedStreamEnd(r)
  \/ \E r \in Requests : Disconnect(r)
  \/ \E r \in Requests : DisconnectWhileSaving(r)
  \/ \E id \in HistoryIds : delete_analysis(id)
  \/ Tick

Spec == Init /\ [][Next]_vars

\* --------------------------------------------------- every endpoint at once
\* Streams are taken without their text chunks here: the chunk loop of
\* generate_stream touches only the text and the events of its own stream.
NextApp ==
  \/ Analyze
  \/ \E r \in Requests : GenerateOk(r)
  \/ \E r \in Requests : RaiseInStream(r)
  \/ \E r \in Requests : StreamEnd(r)
  \/ \E r \in Requests : SaveHistory(r)
  \/ \E r \in Requests : CountedStreamEnd(r)
  \/ \E r \in Requests : Disconnect(r)
  \/ \E r \in Requests : DisconnectWhileSaving(r)
  \/ \E id \in HistoryIds : delete_analysis(id)
  \/ Tick
  \/ download_analysis
  \/ get_analysis_history
  \/ \E id \in HistoryIds : get_analysis_detail(id)

SpecApp == Init /\ [][NextApp]_vars

\* ------------------------------------------------ one stream, chunk by chunk
\* one basico subscriber, one request at a time, streams of several chunks
InitStream ==
  /\ token_email = Str_a_at_a
  /\ ADMIN_DOMAINS = Json(<<>>)
  /\ ADMIN_EMAILS = Json(<<>>)
  /\ customers = Customer("active", StrField(S_basico))
  /\ utc_now = 0
  /\ usage_stats = [b \in Buckets |-> AbsentDoc]
  /\ analysis_history = {}
  /\ inflight = EmptyBag
  /\ last = NoneEnded
  /\ n_limit = 1
  /\ commit_calls = [b \in Buckets |-> 0]
  /\ call = NoCall
  /\ ret = NoCall

NextStream ==
  \/ Analyze
  \/ \E r \in Requests : GenerateOk(r)
  \/ \E r \in Requests : RaiseInStream(r)
  \/ \E r \in Requests : StreamChunkLong(r)
  \/ \E r \in Requests : StreamEnd(r)
  \/ \E r \in Requests : SaveHistory(r)
  \/ \E r \in Requests : CountedStreamEnd(r)
  \/ \E r \in Requests : Disconnect(r)
  \/ \E r \in Requests : DisconnectWhileSaving(r)
  \/ \E id \in HistoryIds : delete_analysis(id)
  \/ Tick

SpecStream == InitStream /\ [][NextStream]_vars

\* ------------------------------------------- the quota gate called directly
S_gold == <<"g", "o", "l", "d">>
PlanKeys == {S_none, S_basico, S_avanzado, S_premium, S_vip, S_gold}

FileCounts ==
  (0..MaxFiles) \cup {DOCS_LIMITS(p) : p \in PlanKeys}
                \cup {DOCS_LIMITS(p) + 1 : p \in PlanKeys}

StoredDocs ==
  {AbsentDoc} \cup {[exists |-> TRUE, analysis_count |-> c] : c \in 0..MaxStored}

Today == get_date_utc_minus_6(utc_now)

InitCheck ==
  /\ token_email = Str_a_at_a
  /\ ADMIN_DOMAINS = Json(<<>>)
  /\ ADMIN_EMAILS = Json(<<>>)
  /\ customers = NoCustomer
  /\ utc_now \in {0, TickHours}
  /\ \E d \in StoredDocs :
       usage_stats = [b \in Buckets |->
                        IF b = get_date_utc_minus_6(utc_now) THEN d
                        ELSE AbsentDoc]
  /\ analysis_history = {}
  /\ inflight = EmptyBag
  /\ last = NoneEnded
  /\ n_limit = 1
  /\ commit_calls = [b \in Buckets |-> 0]
  /\ call \in [fn : {"check"}, plan_key : PlanKeys, num_files : FileCounts,
               check_daily : BOOLEAN]
  /\ ret = NoCall

\* check_analysis_access_and_limits(user_id, plan_key, num_files, check_daily)
CheckCall ==
  /\ call.fn = "check"
  /\ ret = NoCall
  /\ LET v == check_analysis_access_and_limits(call.plan_key, call.num_files,
                                               call.check_daily, usage_stats,
                                               utc_now)
     IN ret' = [fn |-> "check", status |-> v.status, detail |-> v.detail,
                read_stats |-> v.read_stats]
  /\ UNCHANGED <<envVars, utc_now, usage_stats, analysis_history, inflight,
                 last, n_limit, commit_calls, call>>

\* increment_analysis_count(user_id), before the check
CommitCall ==
  /\ call.fn = "check"
  /\ ret = NoCall
  /\ usage_stats[Today].analysis_count < MaxStored
  /\ usage_stats' = increment_analysis_count(usage_stats, utc_now)
  /\ commit_calls' = [commit_calls EXCEPT ![Today] = @ + 1]
  /\ UNCHANGED <<envVars, utc_now, analysis_history, inflight, last, n_limit,
                 call, ret>>

NextCheck == CheckCall \/ CommitCall

SpecCheck == InitCheck /\ [][NextCheck]_vars

\* ----------------------------------------- the plan resolver called directly
Emails == UNION {[1..n -> Chars] : n \in 0..MaxEmailLen}

DomainConfigs ==
  { Json(<<>>),
    Json(<< <<"a">> >>),
    Json(<< <<"a", "a">>, <<" ", "A", " ">> >>),
    Json(<< <<" ">> >>) }

EmailConfigs ==
  { Json(<<>>),
    Json(<< <<" ", "A", "@", "A">> >>),
    Malformed }

CustomerDocs ==
  {NoCustomer} \cup
  {Customer(st, p) :
     st \in {"active", "trialing", "canceled"},
     p \in {NoPlanField, StrField(<<>>), IntField,
            StrField(<<"P", "r", "e", "m", "i", "u", "m">>)}}

InitResolve ==
  /\ token_email \in Emails
  /\ ADMIN_DOMAINS \in DomainConfigs
  /\ ADMIN_EMAILS \in EmailConfigs
  /\ customers \in CustomerDocs
  /\ utc_now = 0
  /\ usage_stats = [b \in Buckets |-> AbsentDoc]
  /\ analysis_history = {}
  /\ inflight = EmptyBag
  /\ last = NoneEnded
  /\ n_limit = 1
  /\ commit_calls = [b \in Buckets |-> 0]
  /\ call = [fn |-> "resolve"]
  /\ ret = NoCall

\* get_user_plan_unified(user_email, user_id)
ResolveCall ==
  /\ call.fn = "resolve"
  /\ ret = NoCall
  /\ \E store_ok \in BOOLEAN :
       LET res == get_user_plan_unified(token_email, ADMIN_DOMAINS,
                                        ADMIN_EMAILS, customers, store_ok)
       IN ret' = [fn |-> "resolve", store_ok |-> store_ok, plan |-> res.plan,
                  raised |-> res.raised, store_read |-> res.store_read]
  /\ UNCHANGED <<envVars, utc_now, usage_stats, analysis_history, inflight,
                 last, n_limit, commit_calls, call>>

NextResolve == ResolveCall

SpecResolve == InitResolve /\ [][NextResolve]_vars

\* ------------------------- authentication and plan resolution of a request
\* either variable may hold text that json.loads rejects
GateDomainConfigs == DomainConfigs \cup {Malformed}

\* a subscription may itself name the plan vip
GateCustomerDocs ==
  CustomerDocs \cup {Customer("active", StrField(<<"V", "I", "P">>))}

InitGate ==
  /\ token_email \in Emails
  /\ ADMIN_DOMAINS \in GateDomainConfigs
  /\ ADMIN_EMAILS \in EmailConfigs
  /\ customers \in GateCustomerDocs
  /\ utc_now = 0
  /\ usage_stats = [b \in Buckets |-> AbsentDoc]
  /\ analysis_history = {}
  /\ inflight = EmptyBag
  /\ last = NoneEnded
  /\ n_limit = 1
  /\ commit_calls = [b \in Buckets |-> 0]
  /\ call = [fn |-> "gate"]
  /\ ret = NoCall

\* what the resolver gives when the dependency let the request in, and the
\* absence of a resolver call when it did not
Unresolved == [plan |-> <<>>, raised |-> FALSE, store_read |-> FALSE]

\* the head of every endpoint: Depends(get_current_user), then
\* get_user_plan_unified on the token's email
GateCall ==
  /\ call.fn = "gate"
  /\ ret = NoCall
  /\ \E valid_token \in BOOLEAN, store_ok \in BOOLEAN :
       LET auth == get_current_user(valid_token, token_email, ADMIN_DOMAINS,
                                    ADMIN_EMAILS)
           resolved == auth.status = 200
           res == IF resolved
                  THEN get_user_plan_unified(token_email, ADMIN_DOMAINS,
                                             ADMIN_EMAILS, customers,
                                             store_ok)
                  ELSE Unresolved
       IN ret' = [fn |-> "gate", valid_token |-> valid_token,
                  store_ok |-> store_ok, auth |-> auth.status,
                  resolved |-> resolved, plan |-> res.plan,
                  raised |-> res.raised, store_read |-> res.store_read]
  /\ UNCHANGED <<envVars, utc_now, usage_stats, analysis_history, inflight,
                 last, n_limit, commit_calls, call>>

NextGate == GateCall

SpecGate == InitGate /\ [][NextGate]_vars

\* ================================================================== claims
\* the plan the subject of this deployment resolves to while the store answers
SubjectPlan ==
  get_user_plan_unified(token_email, ADMIN_DOMAINS, ADMIN_EMAILS, customers,
                        TRUE).plan

\* the date bucket of the clock: the calendar day of utc_now - 6h
BucketNow == (utc_now - 6) \div 24

CountOf(b) == usage_stats[b].analysis_count

\* a step in which request r is over
Leaves(r) == inflight' = inflight (-) SetToBag({r})

\* C1: a request whose stream ended with the error marker leaves today's
\* counter unchanged: no step that ends such a request changes usage_stats.
C1_ErrorDoesNotCommit ==
  [][\A r \in Requests :
       (r.pc = "error_sent" /\ Leaves(r)) =>
         (usage_stats' = usage_stats /\ commit_calls' = commit_calls)]_vars

\* C2: for a basico subject whose requests run one after another, in every
\* reachable state the pre-check passes when fewer than L cycles were
\* committed in the current bucket and fails with 429 when L were; no bucket
\* ever gets more than L cycles, and a new bucket starts from zero.
C2_SequentialDailyLimit ==
  (n_limit = 1 /\ SubjectPlan = S_basico) =>
    LET k == commit_calls[BucketNow]
        v == check_analysis_access_and_limits(SubjectPlan, 1, TRUE,
                                              usage_stats, utc_now)
    IN /\ k <= LIMIT_BASICO_ANALYSIS_DAILY
       /\ k < LIMIT_BASICO_ANALYSIS_DAILY => v.status = 200
       /\ k = LIMIT_BASICO_ANALYSIS_DAILY =>
            (v.status = 429 /\ v.detail = "daily")
       /\ \A b \in Buckets : b > BucketNow => commit_calls[b] = 0

\* L cycles in the first bucket, a 429 there, and a pass on the next day
C2_Witness ==
  /\ n_limit = 1
  /\ SubjectPlan = S_basico
  /\ \E b \in Buckets :
       b < BucketNow /\ CountOf(b) = LIMIT_BASICO_ANALYSIS_DAILY
  /\ last.status = 429
  /\ \E r \in Requests : r.pc = "generating"

\* C3: with at most n_limit requests of the subject in flight, the counter
\* of a bucket never exceeds L + (n_limit - 1), L the finite daily limit of
\* the subject's plan; with one request at a time it never exceeds L.
C3_BoundedOvershoot ==
  /\ BagCardinality(inflight) <= n_limit
  /\ ANALYSIS_LIMITS(SubjectPlan) # UNLIMITED =>
       \A b \in Buckets :
         CountOf(b) <= ANALYSIS_LIMITS(SubjectPlan) + (n_limit - 1)

\* two requests in flight pushed a bucket past the limit
C3_Witness ==
  /\ n_limit = 2
  /\ SubjectPlan = S_basico
  /\ \E b \in Buckets : CountOf(b) = LIMIT_BASICO_ANALYSIS_DAILY + 1

\* C4: a request whose plan resolved to none is rejected with 403 (no active
\* plan) for every file count, metered or not, whatever the counter holds;
\* it never becomes a running stream, writes no history record and sends no
\* event.
C4_NoneNeverPasses ==
  /\ \A r \in Requests : r.plan # S_none
  /\ last.plan = S_none =>
       /\ last.pc = "rejected"
       /\ last.status = 403
       /\ last.detail = "no_plan"
       /\ ~last.saved
       /\ last.marker = "none"
  /\ \A n \in 0..MaxFiles, metered \in BOOLEAN :
       LET v == check_analysis_access_and_limits(S_none, n, metered,
                                                 usage_stats, utc_now)
       IN v.status = 403 /\ v.detail = "no_plan" /\ ~v.read_stats

\* a request resolved to none was turned away while the counter was not zero
C4_Witness ==
  /\ last.plan = S_none
  /\ last.pc = "rejected"
  /\ last.status = 403
  /\ CountOf(BucketNow) > 0

\* C5: a request cancelled while the model call or the chunk stream is still
\* running ends without a change of the daily counter and of the history.
C5_DisconnectCommitsNothing ==
  [][\A r \in Requests :
       (r.pc \in {"generating", "streaming"} /\ Leaves(r)) =>
         /\ usage_stats' = usage_stats
         /\ commit_calls' = commit_calls
         /\ analysis_history' = analysis_history
         /\ r.analysis_id = ""]_vars

\* a stream was cancelled after the counter had been used
C5_Witness ==
  /\ last.pc = "cancelled"
  /\ last.cancelled_at = "streaming"
  /\ ~last.saved
  /\ CountOf(BucketNow) > 0

\* C6: every request whose stream carried the done marker has incremented
\* the daily counter by the time it is over.
C6_DoneIsCounted ==
  [][\A r \in Requests :
       (r.pc = "done_sent" /\ Leaves(r)) =>
         CountOf(BucketNow)' = CountOf(BucketNow) + 1]_vars

\* C7: for plan vip the check never answers 429 and never reads the counter,
\* whatever the counter holds and however many commits came before.
C7_VipNeverDailyLimited ==
  (ret.fn = "check" /\ call.plan_key = S_vip) =>
    (ret.status # 429 /\ ret.detail # "daily" /\ ~ret.read_stats)

\* a vip check passed over a counter beyond every plan's limit, after commits
C7_Witness ==
  /\ ret.fn = "check"
  /\ call.plan_key = S_vip
  /\ call.check_daily
  /\ ret.status = 200
  /\ CountOf(BucketNow) > LIMIT_PREMIUM_ANALYSIS_DAILY
  /\ commit_calls[BucketNow] > 0

\* the per-request ceiling of the spec's plan table
Ceiling(plan_key) ==
  CASE plan_key = S_basico -> 1
    [] plan_key = S_avanzado -> 3
    [] plan_key = S_premium -> 5
    [] plan_key = S_vip -> 100
    [] OTHER -> 0

\* C8: for every plan but none, a request with more files than the plan's
\* ceiling is rejected with the document-count error, metered or not, for
\* every counter value, and the counter is not read.
C8_DocCeilingFirst ==
  (ret.fn = "check" /\ call.plan_key # S_none
     /\ call.num_files > Ceiling(call.plan_key)) =>
    (ret.status = 403 /\ ret.detail = "docs" /\ ~ret.read_stats)

\* too many files on a metered check whose counter is already at the limit
C8_Witness ==
  /\ ret.fn = "check"
  /\ call.plan_key = S_basico
  /\ call.check_daily
  /\ call.num_files = 2
  /\ CountOf(BucketNow) >= LIMIT_BASICO_ANALYSIS_DAILY
  /\ ret.detail = "docs"

\* the identity's email, trimmed and lowercased
NormEmail == Lower(Strip(token_email))

\* d is what follows the last "@" of e (empty when e has none)
IsDomainOf(d, e) ==
  \/ /\ \A i \in 1..Len(e) : e[i] # "@"
     /\ d = <<>>
  \/ \E i \in 1..Len(e) :
       /\ e[i] = "@"
       /\ \A j \in (i + 1)..Len(e) : e[j] # "@"
       /\ d = SubSeq(e, i + 1, Len(e))

\* the identity is on the allow-lists (both parse)
AllowListed ==
  /\ ADMIN_DOMAINS.ok /\ ADMIN_EMAILS.ok
  /\ \/ \E i \in 1..Len(ADMIN_EMAILS.val) :
          Lower(Strip(ADMIN_EMAILS.val[i])) = NormEmail
     \/ \E i \in 1..Len(ADMIN_DOMAINS.val) :
          IsDomainOf(Lower(Strip(ADMIN_DOMAINS.val[i])), NormEmail)

\* C9: an allow-listed identity resolves to vip whatever the subscription
\* record and the store do, and the store is not read.
C9_AllowListedIsVip ==
  (ret.fn = "resolve" /\ AllowListed) =>
    (ret.plan = S_vip /\ ~ret.store_read /\ ~ret.raised)

\* listed by the domain after the last of two "@", canceled subscription,
\* store unreachable
C9_Witness ==
  /\ ret.fn = "resolve"
  /\ AllowListed
  /\ Len(Split(NormEmail)) = 3
  /\ token_email # NormEmail
  /\ customers.exists /\ customers.status = "canceled"
  /\ ~ret.store_ok
  /\ ret.plan = S_vip

\* C10: an identity that is not allow-listed gets a tier other than none
\* only from a store read that succeeded and found a record whose status is
\* active or trialing; otherwise it gets none; nothing is raised.
C10_FailClosed ==
  (ret.fn = "resolve" /\ ~AllowListed) =>
    /\ ~ret.raised
    /\ ret.store_read
    /\ ret.plan # S_none =>
         /\ ret.store_ok
         /\ customers.exists
         /\ customers.status \in {"active", "trialing"}
    /\ (~ret.store_ok \/ ~customers.exists
          \/ customers.status \notin {"active", "trialing"}) =>
         ret.plan = S_none

\* an active subscriber denied because the store could not be read
C10_Witness ==
  /\ ret.fn = "resolve"
  /\ ~AllowListed
  /\ customers.exists /\ customers.status = "active"
  /\ ~ret.store_ok
  /\ ret.plan = S_none
  /\ ~ret.raised

\* either allow-list variable holds text that does not parse
ConfigMalformed == ~ADMIN_DOMAINS.ok \/ ~ADMIN_EMAILS.ok

\* the subscription record names the plan vip and is active or trialing
StoredVip ==
  /\ customers.exists
  /\ customers.status \in {"active", "trialing"}
  /\ customers.plan.kind = "str"
  /\ Lower(customers.plan.val) = S_vip

\* the identity's email is an entry of ADMIN_EMAILS, where that one parses
EmailEntryListed ==
  /\ ADMIN_EMAILS.ok
  /\ \E i \in 1..Len(ADMIN_EMAILS.val) :
       Lower(Strip(ADMIN_EMAILS.val[i])) = NormEmail

\* the identity's domain is an entry of ADMIN_DOMAINS, where that one parses
DomainEntryListed ==
  /\ ADMIN_DOMAINS.ok
  /\ \E i \in 1..Len(ADMIN_DOMAINS.val) :
       IsDomainOf(Lower(Strip(ADMIN_DOMAINS.val[i])), NormEmail)

RECURSIVE ConcatTexts(_)
ConcatTexts(events) ==
  IF events = <<>> THEN <<>>
  ELSE (IF Head(events).type = "text" THEN Head(events).text ELSE <<>>)
         \o ConcatTexts(Tail(events))

\* the events a client has so far: text events, then at most one terminal
\* event, present exactly when the stream has reached its end
StreamShape(r) ==
  LET n == Len(r.events)
  IN /\ \A i \in 1..(n - 1) : r.events[i].type = "text"
     /\ r.pc = "done_sent" =>
          (n >= 1 /\ r.analysis_id \in HistoryIds
             /\ r.events[n] = DoneEvent(r.analysis_id))
     /\ r.pc = "error_sent" => (n >= 1 /\ r.events[n] = ErrorEvent)
     /\ r.pc \notin {"done_sent", "error_sent"} =>
          \A i \in 1..n : r.events[i].type = "text"
     /\ \A i \in 1..n : r.events[i].type = "text" => r.events[i].text # <<>>
     /\ r.full_text = ConcatTexts(r.events)

\* a step that sends the done event leaves the record of that id in the
\* history, holding all the text sent; a stream that has its terminal event
\* gets no further event; a stream ends uncancelled only with its marker
StreamStep ==
  /\ \A r2 \in Requests' :
       (r2.pc = "done_sent" /\ r2 \notin Requests) =>
         \E d \in analysis_history' :
           d.id = r2.analysis_id /\ d.analysis = ConcatTexts(r2.events)
  /\ \A r \in Requests :
       /\ (r.pc \in {"done_sent", "error_sent"} /\ inflight' # inflight) =>
            Leaves(r)
       /\ (Leaves(r) /\ last'.pc = "finished") =>
            /\ r.pc \in {"done_sent", "error_sent"}
            /\ last'.marker = (IF r.pc = "done_sent" THEN "done" ELSE "error")
            /\ last'.saved = (r.pc = "done_sent")

\* C12: every stream carries text events followed by at most one terminal
\* event, which is its last event; a stream that ends without cancellation
\* ends with exactly one: the done marker, sent by the step that has put the
\* record of that id with the concatenation of all text sent into the
\* history, or the error marker, never both.
C12_OneTerminalEvent ==
  /\ [](\A r \in Requests : StreamShape(r))
  /\ [][StreamStep]_vars

\* two different chunks, then the done marker of the record that holds both
C12_Witness ==
  \E r \in Requests :
    /\ r.pc = "done_sent"
    /\ Len(r.events) = 3
    /\ r.events[1].text # r.events[2].text
    /\ \E d \in analysis_history :
         /\ d.id = r.analysis_id
         /\ d.analysis = r.events[1].text \o r.events[2].text

\* the counter of every bucket is the number of commits made in it, and the
\* record exists from the first commit on
CounterIsCommits ==
  \A b \in Buckets :
    /\ CountOf(b) = commit_calls[b]
    /\ CountOf(b) >= 0
    /\ usage_stats[b].exists = (commit_calls[b] > 0)

\* no step lowers a counter, and a step that changes usage_stats is the
\* commit of one request that had its terminal event: today's record, made
\* if absent, one higher, every other record as it was
CounterStep ==
  /\ \A b \in Buckets : CountOf(b)' >= CountOf(b)
  /\ usage_stats' # usage_stats =>
       /\ \E r \in Requests :
            r.pc \in {"done_sent", "error_sent"} /\ Leaves(r)
       /\ commit_calls' = [commit_calls EXCEPT ![BucketNow] = @ + 1]
       /\ usage_stats' =
            [usage_stats EXCEPT ![BucketNow] =
               [exists |-> TRUE, analysis_count |-> CountOf(BucketNow) + 1]]
  /\ commit_calls' # commit_calls => usage_stats' # usage_stats

\* C13: k commits in a bucket, however the requests interleave, leave its
\* counter at exactly k, the first one creating the record; the counter is
\* never negative and never decreases; no step but the commit (pre-check,
\* export, history list, detail, delete) changes it.
C13_AtomicIncrement ==
  /\ []CounterIsCommits
  /\ [][CounterStep]_vars

\* two overlapping requests have committed and a third one is about to
C13_Witness ==
  /\ n_limit = 2
  /\ commit_calls[BucketNow] = 2
  /\ CountOf(BucketNow) = 2
  /\ last.pc = "finished"
  /\ BagCardinality(inflight) = 2
  /\ \E r \in Requests : r.pc \in {"done_sent", "error_sent"}

\* both allow-lists parse and at least one of them has an entry
HasRestrictions ==
  /\ ADMIN_DOMAINS.ok /\ ADMIN_EMAILS.ok
  /\ ADMIN_DOMAINS.val # <<>> \/ ADMIN_EMAILS.val # <<>>

\* C14: while an allow-list is configured, every request that got past
\* get_current_user is resolved to vip by get_user_plan_unified.
C14_AdmittedIsVip ==
  (ret.fn = "gate" /\ HasRestrictions /\ ret.auth = 200) =>
    ret.plan = S_vip

\* the plan names the limit tables have an entry for
TablePlans == {S_basico, S_avanzado, S_premium, S_vip}

====
